---- MODULE Spec2Model ----
(***************************************************************************)
(* JobHunts: the upload-audio pipeline (transcribe -> extract -> append a  *)
(* row) in its three variants: app.py, lambda_app.py and                   *)
(* package/lambda_app.py.                                                  *)
(***************************************************************************)
EXTENDS Integers, Sequences, FiniteSets, TLC

\* ------------------------------------------------------------------------
\* Bounds
\* ------------------------------------------------------------------------
\* longest status string the provider is made to return
MaxStrLen == 1

\* number of uploads handled at the same time
NumRequests == 2

\* ------------------------------------------------------------------------
\* Python / JSON values.  Every value is a record [t, v]: t is the type tag,
\* v the characters of a string (<<>> for the other types).
\* ------------------------------------------------------------------------
Absent == [t |-> "absent", v |-> <<>>]    \* key not in the dict
Null   == [t |-> "null",   v |-> <<>>]    \* JSON null / Python None
Num0   == [t |-> "num0",   v |-> <<>>]    \* JSON number 0 (falsy, not a str)
Num5   == [t |-> "num5",   v |-> <<>>]    \* JSON number 5 (truthy, not a str)
Str(s) == [t |-> "str",    v |-> s]

NA      == Str(<<"N", "/", "A">>)
Empty   == Str(<<>>)
Applied == Str(<<"a", "p", "p", "l", "i", "e", "d">>)
Today   == Str(<<"d", "a", "t", "e">>)

FIELDS == <<"company_name", "job_role", "resume_version", "platform", "status">>
FieldSet == {FIELDS[i] : i \in 1..Len(FIELDS)}

\* Python truthiness of a value
Truthy(x) ==
    CASE x.t = "str"  -> x.v # <<>>
      [] x.t = "num5" -> TRUE
      [] OTHER        -> FALSE

IsSpace(c) == c = " "

RECURSIVE LStrip(_)
LStrip(s) == IF s # <<>> /\ IsSpace(Head(s)) THEN LStrip(Tail(s)) ELSE s

RECURSIVE RStrip(_)
RStrip(s) ==
    IF s # <<>> /\ IsSpace(s[Len(s)]) THEN RStrip(SubSeq(s, 1, Len(s) - 1)) ELSE s

\* str.strip()
Strip(s) == RStrip(LStrip(s))

\* dict.get(key, default)
Get(d, k, default) == IF d[k] = Absent THEN default ELSE d[k]

RECURSIVE StrsOfLen(_)
StrsOfLen(n) ==
    IF n = 0 THEN {<<>>}
    ELSE {<<c>> \o s : c \in {" ", "x"}, s \in StrsOfLen(n - 1)}

\* what the provider may put under "status"
StatusValues ==
    {Absent, Null, Num0, Num5} \cup {Str(s) : s \in UNION {StrsOfLen(n) : n \in 0..MaxStrLen}}

\* what the provider may put under each of the other four keys; null is
\* tried under two of them
PlainValues == {Absent, Null, Str(<<"x">>)}

NullableFields == {"company_name", "platform"}

\* the JSON objects the provider may return
ProviderObjects ==
    {o \in [FieldSet -> StatusValues] :
        \A k \in FieldSet \ {"status"} :
            /\ o[k] \in PlainValues
            /\ o[k] = Null => k \in NullableFields}

NoObject == [k \in FieldSet |-> Absent]

\* A parsed JSON document: an object, or something that is not an object.
Doc(kind, o) == [kind |-> kind, obj |-> o]
NoDoc == Doc("none", NoObject)

\* ------------------------------------------------------------------------
\* Exceptions and outcomes of a call
\* ------------------------------------------------------------------------
\* direct base classes (requests.exceptions, json, builtins)
Bases(c) ==
    CASE c = "HTTPError"               -> {"RequestException"}
      [] c = "ConnectionError"         -> {"RequestException"}
      [] c = "RequestsJSONDecodeError" -> {"RequestException", "JSONDecodeError"}
      [] c = "JSONDecodeError"         -> {"ValueError"}
      [] c = "RequestException"        -> {"OSError"}
      [] c \in {"ValueError", "TypeError", "AttributeError", "KeyError", "OSError", "APIError"}
                                       -> {"Exception"}
      [] c = "Exception"               -> {"BaseException"}
      [] OTHER                         -> {}

RECURSIVE IsSubclass(_, _)
IsSubclass(c, d) == c = d \/ \E b \in Bases(c) : IsSubclass(b, d)

Ret(val)        == [raised |-> FALSE, cls |-> "", msg |-> "", val |-> val]
Raise(cls, msg) == [raised |-> TRUE, cls |-> cls, msg |-> msg, val |-> NoDoc]

\* ------------------------------------------------------------------------
\* The extraction provider (Gemini generateContent) as seen by one request
\* ------------------------------------------------------------------------
BodyKinds ==
    {"body_not_json",      \* response.json() fails
     "body_null",          \* the body is the JSON value null
     "no_struct",          \* a JSON object without candidates/content/parts/text
     "text_unparseable",   \* the text payload is not JSON
     "text_nonobject",     \* the text payload is JSON, but a list
     "text_object"}        \* the text payload is a JSON object

Resp(status, body, o) == [status |-> status, body |-> body, obj |-> o]

\* status 0: no response at all (connection error or timeout)
ProviderResponses ==
    {Resp(st, "none", NoObject) : st \in {0, 404, 503}}
    \cup {Resp(200, b, NoObject) : b \in BodyKinds \ {"text_object"}}
    \cup {Resp(200, "text_object", o) : o \in ProviderObjects}

MalformedBodies == {"no_struct", "text_unparseable", "text_nonobject"}

\* requests.post(...); response.raise_for_status(); response.json()
PostJson(resp) ==
    CASE resp.status = 0 -> Raise("ConnectionError", "connection failed")
      [] 400 <= resp.status /\ resp.status < 500 -> Raise("HTTPError", "4xx Client Error")
      [] 500 <= resp.status /\ resp.status < 600 -> Raise("HTTPError", "5xx Server Error")
      [] resp.body = "body_not_json" -> Raise("RequestsJSONDecodeError", "Expecting value")
      [] OTHER -> Ret(NoDoc)

\* json.loads(json_string)
JsonLoads(resp) ==
    CASE resp.body = "text_unparseable" -> Raise("JSONDecodeError", "Expecting value")
      [] resp.body = "text_nonobject"   -> Ret(Doc("list", NoObject))
      [] OTHER                          -> Ret(Doc("object", resp.obj))

\* DefaultStatus without the .strip() test: a whitespace-only status is kept
DefaultStatusNoStrip(d) ==
    LET s == Get(d, "status", Null) IN
    IF ~Truthy(s) THEN Ret(Doc("object", [d EXCEPT !["status"] = Applied]))
    ELSE IF s.t # "str" THEN Raise("AttributeError", "object has no attribute 'strip'")
    ELSE Ret(Doc("object", [d EXCEPT !["status"] = Get(d, "status", Applied)]))

\* the status default of app.py and lambda_app.py
DefaultStatus(d) ==
    LET s == Get(d, "status", Null) IN
    IF ~Truthy(s) THEN Ret(Doc("object", [d EXCEPT !["status"] = Applied]))
    ELSE IF s.t # "str" THEN Raise("AttributeError", "object has no attribute 'strip'")
    ELSE IF Strip(s.v) = <<>> THEN Ret(Doc("object", [d EXCEPT !["status"] = Applied]))
    ELSE Ret(Doc("object", [d EXCEPT !["status"] = Get(d, "status", Applied)]))

\* ApplyDefaults that takes JSON which is not an object for an empty object
ApplyDefaultsAnyJson(doc) ==
    DefaultStatus([k \in FieldSet |->
                     IF k = "status" THEN doc.obj[k] ELSE Get(doc.obj, k, NA)])

\* the four placeholder assignments followed by the status default
ApplyDefaults(doc) ==
    IF doc.kind # "object" THEN Raise("AttributeError", "object has no attribute 'get'")
    ELSE DefaultStatus([k \in FieldSet |->
                          IF k = "status" THEN doc.obj[k] ELSE Get(doc.obj, k, NA)])

\* app.py: the body of the try block of one attempt
TryBodyApp(resp) ==
    LET r == PostJson(resp) IN
    IF r.raised THEN r
    ELSE IF resp.body = "body_null" THEN Raise("TypeError", "argument of type 'NoneType' is not iterable")
    ELSE IF resp.body = "no_struct" THEN Raise("ValueError", "Unexpected API response structure")
    ELSE LET j == JsonLoads(resp) IN
         IF j.raised THEN Raise("ValueError", "Failed to parse JSON from Gemini response")
         ELSE ApplyDefaults(j.val)

\* a test for "there is a response" in place of the truth value of the response
ResponseIsNotNone(status) == status # 0

\* bool(response): requests.Response.__bool__ is Response.ok
ResponseBool(status) == ~(400 <= status /\ status < 600)

\* 2 * attempt for 2 ** attempt
Twice(n) == 2 * n

RECURSIVE Pow2(_)
Pow2(n) == IF n = 0 THEN 1 ELSE 2 * Pow2(n - 1)

MaxAttempts == 3

Step(act, sleep, val) == [act |-> act, sleep |-> sleep, val |-> val]

\* AttemptApp whose last attempt swallows a retryable error: the function
\* falls through and returns None
AttemptAppSwallow(resp, attempt) ==
    LET r == TryBodyApp(resp) IN
    IF ~r.raised THEN Step("return", 0, r.val)
    ELSE IF IsSubclass(r.cls, "HTTPError") THEN
        LET status_code == IF ResponseBool(resp.status) THEN resp.status ELSE 0 IN
        IF status_code # 0 /\ 500 <= status_code /\ status_code < 600
        THEN Step("retry", Pow2(attempt), NoDoc)
        ELSE Step("raise", 0, NoDoc)
    ELSE IF IsSubclass(r.cls, "RequestException") \/ IsSubclass(r.cls, "ValueError") THEN
        IF attempt < 2 THEN Step("retry", Pow2(attempt), NoDoc)
        ELSE Step("return", 0, NoDoc)
    ELSE Step("raise", 0, NoDoc)

\* AttemptApp that retries every HTTP error status, 4xx included
AttemptAppRetry4xx(resp, attempt) ==
    LET r == TryBodyApp(resp) IN
    IF ~r.raised THEN Step("return", 0, r.val)
    ELSE IF IsSubclass(r.cls, "RequestException") \/ IsSubclass(r.cls, "ValueError") THEN
        IF attempt < 2 THEN Step("retry", Pow2(attempt), NoDoc)
        ELSE Step("raise", 0, NoDoc)
    ELSE Step("raise", 0, NoDoc)

\* app.py: one iteration of the retry loop; attempt counts from 0.
\* act is "return", "retry" (continue with the next iteration) or "raise".
AttemptApp(resp, attempt) ==
    LET r == TryBodyApp(resp) IN
    IF ~r.raised THEN Step("return", 0, r.val)
    ELSE IF IsSubclass(r.cls, "HTTPError") THEN
        LET status_code == IF ResponseBool(resp.status) THEN resp.status ELSE 0 IN
        IF status_code # 0 /\ 500 <= status_code /\ status_code < 600
        THEN Step("retry", Pow2(attempt), NoDoc)
        ELSE Step("raise", 0, NoDoc)
    ELSE IF IsSubclass(r.cls, "RequestException") \/ IsSubclass(r.cls, "ValueError") THEN
        IF attempt < 2 THEN Step("retry", Pow2(attempt), NoDoc)
        ELSE Step("raise", 0, NoDoc)
    ELSE Step("raise", 0, NoDoc)

\* lambda_app.py: extract_job_details
ExtractLambda(resp) ==
    LET r == PostJson(resp)
        j == JsonLoads(resp)
        body == IF r.raised THEN r
                ELSE IF resp.body = "body_null" THEN Raise("TypeError", "'NoneType' object is not subscriptable")
                ELSE IF resp.body = "no_struct" THEN Raise("KeyError", "'candidates'")
                ELSE IF j.raised THEN j
                ELSE ApplyDefaults(j.val)
    IN IF body.raised THEN Raise("Exception", "Failed to extract job details") ELSE body

\* package/lambda_app.py: extract_job_details
ExtractPackage(resp) ==
    LET r == PostJson(resp) IN
    IF r.raised THEN r
    ELSE IF resp.body = "body_null" THEN Raise("TypeError", "'NoneType' object is not subscriptable")
    ELSE IF resp.body = "no_struct" THEN Raise("KeyError", "'candidates'")
    ELSE JsonLoads(resp)

\* ------------------------------------------------------------------------
\* Request validation
\* ------------------------------------------------------------------------
Variants == {"app", "lambda", "package"}

\* 10 * 1024 * 1024
MaxUpload == 10 * 1024 * 1024

Filenames ==
    { <<>>,                                        \* empty filename
      <<"a", ".", "w", "e", "b", "m">>,
      <<"a", ".", "M", "P", "3">>,
      <<"a", ".", "w", "a", "v">>,
      <<"a", ".", "m", "4", "a">>,
      <<"a", ".", "m", "p", "3", ".", "t", "x", "t">>,
      <<".", "w", "a", "v">>,                      \* only a leading dot
      <<"a", ".", "b", "/", "w", "a", "v">> }      \* the dot is in the directory

Sizes == {MaxUpload, MaxUpload + 1}

GoodName == <<"a", ".", "w", "e", "b", "m">>

Req(has, name, size) == [has_field |-> has, filename |-> name, size |-> size]

\* the uploads tried: no form field at all, every filename with a file of
\* the largest size allowed, and a good filename with a file one byte larger
Requests ==
    {Req(FALSE, <<>>, 0)}
    \cup {Req(TRUE, f, MaxUpload) : f \in Filenames}
    \cup {Req(TRUE, GoodName, n) : n \in Sizes}

\* str.rfind(c): the last index of c, 0 when there is none (indices from 1)
RFind(p, c) ==
    LET I == {i \in 1..Len(p) : p[i] = c} IN
    IF I = {} THEN 0 ELSE CHOOSE i \in I : \A j \in I : j <= i

\* os.path.splitext(p)[1]
SplitExt(p) ==
    LET sepIndex == RFind(p, "/")
        dotIndex == RFind(p, ".")
    IN IF dotIndex > sepIndex
          /\ \E i \in (sepIndex + 1)..(dotIndex - 1) : p[i] # "."
       THEN SubSeq(p, dotIndex, Len(p))
       ELSE <<>>

LowerChar(c) ==
    CASE c = "M" -> "m"
      [] c = "P" -> "p"
      [] OTHER   -> c

\* str.lower()
Lower(s) == [i \in 1..Len(s) |-> LowerChar(s[i])]

allowed_extensions ==
    { <<".", "w", "e", "b", "m">>, <<".", "m", "p", "3">>,
      <<".", "w", "a", "v">>, <<".", "m", "4", "a">> }

Response(code, error, extracted) ==
    [code |-> code, error |-> error, extracted |-> extracted]

NoResponse == Response(0, <<>>, NoDoc)

\* ValidateApp with >= for > in the size test
ValidateAppSizeInclusive(req) ==
    IF ~req.has_field THEN Response(400, <<"No audio file provided">>, NoDoc)
    ELSE IF req.filename = <<>> THEN Response(400, <<"No file selected">>, NoDoc)
    ELSE IF Lower(SplitExt(req.filename)) \notin allowed_extensions
         THEN Response(400, <<"Invalid file type. Please upload an audio file.">>, NoDoc)
    ELSE IF req.size >= MaxUpload
         THEN Response(400, <<"File too large. Maximum size is 10MB.">>, NoDoc)
    ELSE NoResponse

\* app.py and lambda_app.py: the checks before the pipeline; NoResponse
\* when the request passes
ValidateApp(req) ==
    IF ~req.has_field THEN Response(400, <<"No audio file provided">>, NoDoc)
    ELSE IF req.filename = <<>> THEN Response(400, <<"No file selected">>, NoDoc)
    ELSE IF Lower(SplitExt(req.filename)) \notin allowed_extensions
         THEN Response(400, <<"Invalid file type. Please upload an audio file.">>, NoDoc)
    ELSE IF req.size > MaxUpload
         THEN Response(400, <<"File too large. Maximum size is 10MB.">>, NoDoc)
    ELSE NoResponse

\* package/lambda_app.py: the checks before the pipeline
ValidatePackage(req) ==
    IF ~req.has_field THEN Response(400, <<"No audio file part">>, NoDoc)
    ELSE IF req.filename = <<>> THEN Response(400, <<"No selected file">>, NoDoc)
    ELSE NoResponse

Validate(v, req) == IF v = "package" THEN ValidatePackage(req) ELSE ValidateApp(req)

\* ------------------------------------------------------------------------
\* Transcription and persistence
\* ------------------------------------------------------------------------
TranscribeOutcomes == {"write_error", "api_exception", "error_status", "completed"}

\* app.py and package/lambda_app.py: the exception is re-raised as it is
TranscribeApp(out) ==
    CASE out = "write_error"   -> Raise("OSError", "No space left on device")
      [] out = "api_exception" -> Raise("Exception", "transcriber unavailable")
      [] out = "error_status"  -> Raise("Exception", "Transcription failed: bad audio")
      [] OTHER                 -> Ret(NoDoc)

\* lambda_app.py: every exception is replaced by a fixed one
TranscribeLambda(out) ==
    IF TranscribeApp(out).raised THEN Raise("Exception", "Audio transcription failed")
    ELSE Ret(NoDoc)

TranscribeAudio(v, out) == IF v = "lambda" THEN TranscribeLambda(out) ELSE TranscribeApp(out)

\* the temporary file is unlinked by the finally of the inner try only
TempFileLeft(out) == out = "write_error"

\* RowApp with the company and role columns exchanged
RowAppSwapped(d) ==
    << Today, Get(d, "job_role", NA), Get(d, "company_name", NA),
       Get(d, "resume_version", NA), Get(d, "platform", NA),
       Get(d, "status", Applied) >>

\* app.py and lambda_app.py: the row handed to append_row
RowApp(d) ==
    << Today, Get(d, "company_name", NA), Get(d, "job_role", NA),
       Get(d, "resume_version", NA), Get(d, "platform", NA),
       Get(d, "status", Applied) >>

\* package/lambda_app.py: the row handed to append_row
RowPackage(d) ==
    << Today, Get(d, "company_name", Empty), Get(d, "job_role", Empty),
       Get(d, "resume_version", Empty), Get(d, "platform", Empty),
       Get(d, "status", Applied) >>

SheetOutcomes == {"ok", "api_error"}

Saved(raised, cls, msg, rows) == [raised |-> raised, cls |-> cls, msg |-> msg, rows |-> rows]

\* app.py and lambda_app.py: add_row_to_sheet; rows are the rows appended
AddRowApp(doc, out) ==
    IF doc.kind # "object" \/ out # "ok"
    THEN Saved(TRUE, "Exception", "Failed to save data", <<>>)
    ELSE Saved(FALSE, "", "", <<RowApp(doc.obj)>>)

\* package/lambda_app.py: add_row_to_sheet
AddRowPackage(doc, out) ==
    IF doc.kind # "object"
    THEN Saved(TRUE, "AttributeError", "object has no attribute 'get'", <<>>)
    ELSE IF out # "ok" THEN Saved(TRUE, "APIError", "sheets api error", <<>>)
    ELSE Saved(FALSE, "", "", <<RowPackage(doc.obj)>>)

AddRow(v, doc, out) == IF v = "package" THEN AddRowPackage(doc, out) ELSE AddRowApp(doc, out)

\* ------------------------------------------------------------------------
\* The handler's except clause
\* ------------------------------------------------------------------------
\* an except clause that names the request and parsing errors only
CatchesRequestErrors(cls) ==
    IsSubclass(cls, "RequestException") \/ IsSubclass(cls, "ValueError")

\* except Exception
Catches(cls) == IsSubclass(cls, "Exception")

GenericError == <<"Processing failed. Please try again.">>

\* the body of the 500 response
ErrorBody(v, msg) ==
    IF v = "package" THEN <<"Processing failed: ", msg>> ELSE GenericError

\* ------------------------------------------------------------------------
\* State
\* ------------------------------------------------------------------------
VARIABLES
    variant,      \* which copy of the pipeline is deployed
    pc,           \* "idle", "transcribe", "extract", "persist", "done"
    req,          \* the upload request being handled
    transcript,   \* transcript_text, Null before transcription returned
    attempt,      \* app.py: the loop variable of extract_job_details
    sleeps,       \* the time.sleep() calls of this request, in order
    log,          \* the provider's answers to this request, in order
    job_details,  \* what extract_job_details returned, NoDoc before
    appended,     \* the rows this request appended to worksheet 0
    response,     \* the HTTP response, NoResponse before
    escaped,      \* an exception left upload_audio
    trace,        \* the stages entered by this request, in order
    tmp_left,     \* the temporary audio file still exists
    last500       \* the body of the latest 500 of an earlier request

vars == << variant, pc, req, transcript, attempt, sleeps, log, job_details,
           appended, response, escaped, trace, tmp_left, last500 >>

\* lambda_app.py with several invocations of upload_audio in flight: the
\* locals of each invocation, and the worksheet behind the shared handle
VARIABLES
    cpc,          \* per request: "idle", "transcribe", "extract", "persist", "done"
    ctext,        \* per request: transcript_text
    cjob,         \* per request: job_details
    cresp,        \* per request: the HTTP response
    csaved,       \* per request: the rows its append_row call wrote
    sheet         \* worksheet 0: the rows appended, in order

cvars == << cpc, ctext, cjob, cresp, csaved, sheet >>

Procs == 1..NumRequests

\* no concurrent request has started
ConcIdle ==
    /\ cpc = [p \in Procs |-> "idle"]
    /\ ctext = [p \in Procs |-> Null]
    /\ cjob = [p \in Procs |-> NoDoc]
    /\ cresp = [p \in Procs |-> NoResponse]
    /\ csaved = [p \in Procs |-> <<>>]
    /\ sheet = <<>>

NoRequest == Req(FALSE, <<>>, 0)
TranscriptText == Str(<<"t">>)

Init ==
    /\ variant \in Variants
    /\ pc = "idle"
    /\ req = NoRequest
    /\ transcript = Null
    /\ attempt = 0
    /\ sleeps = <<>>
    /\ log = <<>>
    /\ job_details = NoDoc
    /\ appended = <<>>
    /\ response = NoResponse
    /\ escaped = FALSE
    /\ trace = <<>>
    /\ tmp_left = FALSE
    /\ last500 = <<>>
    /\ ConcIdle

\* an exception reaches the except clause of upload_audio
Fail(cls, msg) ==
    /\ pc' = "done"
    /\ IF Catches(cls)
       THEN /\ response' = Response(500, ErrorBody(variant, msg), NoDoc)
            /\ escaped' = FALSE
       ELSE /\ response' = NoResponse
            /\ escaped' = TRUE

\* upload_audio up to file.read(): the validation
Receive(r) ==
    /\ UNCHANGED cvars
    /\ pc = "idle"
    /\ req' = r
    /\ LET v == Validate(variant, r) IN
       IF v # NoResponse
       THEN /\ response' = v
            /\ pc' = "done"
       ELSE /\ response' = NoResponse
            /\ pc' = "transcribe"
    /\ UNCHANGED << variant, transcript, attempt, sleeps, log, job_details,
                    appended, escaped, trace, tmp_left, last500 >>

\* Transcribe that tries again after an exception of the transcriber
TranscribeRetrying(out) ==
    /\ UNCHANGED cvars
    /\ pc = "transcribe"
    /\ trace' = Append(trace, "transcribe")
    /\ tmp_left' = TempFileLeft(out)
    /\ LET r == TranscribeAudio(variant, out) IN
       IF r.raised /\ out = "api_exception" /\ Len(trace) < 2
       THEN UNCHANGED << pc, response, escaped, transcript >>
       ELSE IF r.raised
       THEN /\ Fail(r.cls, r.msg)
            /\ UNCHANGED transcript
       ELSE /\ transcript' = TranscriptText
            /\ pc' = "extract"
            /\ UNCHANGED << response, escaped >>
    /\ UNCHANGED << variant, req, attempt, sleeps, log, job_details, appended, last500 >>

\* step 1: transcribe_audio_in_memory(audio_data)
Transcribe(out) ==
    /\ UNCHANGED cvars
    /\ pc = "transcribe"
    /\ trace' = Append(trace, "transcribe")
    /\ tmp_left' = TempFileLeft(out)
    /\ LET r == TranscribeAudio(variant, out) IN
       IF r.raised
       THEN /\ Fail(r.cls, r.msg)
            /\ UNCHANGED transcript
       ELSE /\ transcript' = TranscriptText
            /\ pc' = "extract"
            /\ UNCHANGED << response, escaped >>
    /\ UNCHANGED << variant, req, attempt, sleeps, log, job_details, appended, last500 >>

Logged(resp) == resp

\* step 2, app.py: one iteration of the loop of extract_job_details
ExtractAttemptApp(resp) ==
    /\ UNCHANGED cvars
    /\ pc = "extract"
    /\ variant = "app"
    /\ attempt < MaxAttempts
    /\ trace' = Append(trace, "post")
    /\ log' = Append(log, Logged(resp))
    /\ LET step == AttemptApp(resp, attempt) IN
       CASE step.act = "return" ->
              /\ job_details' = step.val
              /\ pc' = "persist"
              /\ UNCHANGED << attempt, sleeps, response, escaped >>
         [] step.act = "retry" ->
              /\ sleeps' = Append(sleeps, step.sleep)
              /\ attempt' = attempt + 1
              /\ IF attempt + 1 = MaxAttempts
                 THEN Fail("Exception", "API request failed after 3 attempts.")
                 ELSE UNCHANGED << pc, response, escaped >>
              /\ UNCHANGED job_details
         [] OTHER ->
              /\ Fail("Exception", "API request failed")
              /\ UNCHANGED << attempt, sleeps, job_details >>
    /\ UNCHANGED << variant, req, transcript, appended, tmp_left, last500 >>

\* the single call of the variants without a retry loop
ExtractOnce(r) ==
    /\ UNCHANGED cvars
    /\ IF r.raised
       THEN /\ Fail(r.cls, r.msg)
            /\ UNCHANGED job_details
       ELSE /\ job_details' = r.val
            /\ pc' = "persist"
            /\ UNCHANGED << response, escaped >>
    /\ UNCHANGED << variant, req, transcript, attempt, sleeps, appended, tmp_left, last500 >>

\* step 2, lambda_app.py
ExtractStepLambda(resp) ==
    /\ pc = "extract"
    /\ variant = "lambda"
    /\ trace' = Append(trace, "post")
    /\ log' = Append(log, Logged(resp))
    /\ ExtractOnce(ExtractLambda(resp))

\* step 2, package/lambda_app.py
ExtractStepPackage(resp) ==
    /\ pc = "extract"
    /\ variant = "package"
    /\ trace' = Append(trace, "post")
    /\ log' = Append(log, Logged(resp))
    /\ ExtractOnce(ExtractPackage(resp))

\* step 3 and the success response: add_row_to_sheet(job_details); jsonify
Persist(out) ==
    /\ UNCHANGED cvars
    /\ pc = "persist"
    /\ trace' = Append(trace, "append")
    /\ LET s == AddRow(variant, job_details, out) IN
       IF s.raised
       THEN /\ Fail(s.cls, s.msg)
            /\ UNCHANGED appended
       ELSE /\ appended' = s.rows
            /\ response' = Response(200, <<>>, job_details)
            /\ pc' = "done"
            /\ UNCHANGED escaped
    /\ UNCHANGED << variant, req, transcript, attempt, sleeps, log, job_details,
                    tmp_left, last500 >>

\* the server is ready for the next request
NextRequest ==
    /\ UNCHANGED cvars
    /\ pc = "done"
    /\ pc' = "idle"
    /\ last500' = IF response.code = 500 THEN response.error ELSE last500
    /\ req' = NoRequest
    /\ transcript' = Null
    /\ attempt' = 0
    /\ sleeps' = <<>>
    /\ log' = <<>>
    /\ job_details' = NoDoc
    /\ appended' = <<>>
    /\ response' = NoResponse
    /\ escaped' = FALSE
    /\ trace' = <<>>
    /\ tmp_left' = FALSE
    /\ UNCHANGED variant

Next ==
    \/ \E r \in Requests : Receive(r)
    \/ \E out \in TranscribeOutcomes : Transcribe(out)
    \/ \E resp \in ProviderResponses : ExtractAttemptApp(resp)
    \/ \E resp \in ProviderResponses : ExtractStepLambda(resp)
    \/ \E resp \in ProviderResponses : ExtractStepPackage(resp)
    \/ \E out \in SheetOutcomes : Persist(out)
    \/ NextRequest

Spec == Init /\ [][Next]_vars

\* ------------------------------------------------------------------------
\* Concurrent requests in lambda_app.py
\* ------------------------------------------------------------------------
\* the transcript of request p's audio: a different text for every request
TranscriptOf(p) == Str([i \in 1..p |-> "t"])

\* the uploads tried
ConcRequests == {Req(FALSE, <<>>, 0), Req(TRUE, GoodName, MaxUpload)}

\* the provider's answers to a prompt carrying transcript t: a failure, or
\* an object whose company name is taken from the transcript
ConcAnswers(t) ==
    {Resp(503, "none", NoObject)}
    \cup {Resp(200, "text_object",
               [k \in FieldSet |->
                   CASE k = "company_name" -> t
                     [] k = "job_role"     -> role
                     [] k = "status"       -> st
                     [] OTHER              -> Absent]) :
            role \in {Absent, t}, st \in {Absent, Str(<<"x">>)}}

\* every answer the provider may give to some request
ConcAnswerSet == UNION {ConcAnswers(TranscriptOf(p)) : p \in Procs}

\* job_details kept in one module-level variable: the record of whichever
\* request has one
SharedJob(p) == cjob[CHOOSE q \in Procs : cjob[q] # NoDoc]

\* job_details is a local of the invocation
LocalJob(p) == cjob[p]

\* the except clause of upload_audio, for request p
CFail(p, cls, msg) ==
    /\ cpc' = [cpc EXCEPT ![p] = "done"]
    /\ cresp' = [cresp EXCEPT ![p] =
                    IF Catches(cls) THEN Response(500, ErrorBody("lambda", msg), NoDoc)
                    ELSE NoResponse]

CReceive(p, r) ==
    /\ cpc[p] = "idle"
    /\ LET v == ValidateApp(r) IN
       IF v # NoResponse
       THEN /\ cresp' = [cresp EXCEPT ![p] = v]
            /\ cpc' = [cpc EXCEPT ![p] = "done"]
       ELSE /\ cpc' = [cpc EXCEPT ![p] = "transcribe"]
            /\ UNCHANGED cresp
    /\ UNCHANGED << ctext, cjob, csaved, sheet >>
    /\ UNCHANGED vars

CTranscribe(p, out) ==
    /\ cpc[p] = "transcribe"
    /\ LET r == TranscribeLambda(out) IN
       IF r.raised
       THEN /\ CFail(p, r.cls, r.msg)
            /\ UNCHANGED ctext
       ELSE /\ ctext' = [ctext EXCEPT ![p] = TranscriptOf(p)]
            /\ cpc' = [cpc EXCEPT ![p] = "extract"]
            /\ UNCHANGED cresp
    /\ UNCHANGED << cjob, csaved, sheet >>
    /\ UNCHANGED vars

CExtract(p, resp) ==
    /\ cpc[p] = "extract"
    /\ resp \in ConcAnswers(ctext[p])
    /\ LET r == ExtractLambda(resp) IN
       IF r.raised
       THEN /\ CFail(p, r.cls, r.msg)
            /\ UNCHANGED cjob
       ELSE /\ cjob' = [cjob EXCEPT ![p] = r.val]
            /\ cpc' = [cpc EXCEPT ![p] = "persist"]
            /\ UNCHANGED cresp
    /\ UNCHANGED << ctext, csaved, sheet >>
    /\ UNCHANGED vars

\* add_row_to_sheet and the success response; append_row is one call on the
\* worksheet
CPersist(p, out) ==
    /\ cpc[p] = "persist"
    /\ LET s == AddRowApp(LocalJob(p), out) IN
       IF s.raised
       THEN /\ CFail(p, s.cls, s.msg)
            /\ UNCHANGED << csaved, sheet >>
       ELSE /\ sheet' = sheet \o s.rows
            /\ csaved' = [csaved EXCEPT ![p] = s.rows]
            /\ cresp' = [cresp EXCEPT ![p] = Response(200, <<>>, LocalJob(p))]
            /\ cpc' = [cpc EXCEPT ![p] = "done"]
    /\ UNCHANGED << ctext, cjob >>
    /\ UNCHANGED vars

InitConc ==
    /\ variant = "lambda"
    /\ pc = "idle"
    /\ req = NoRequest
    /\ transcript = Null
    /\ attempt = 0
    /\ sleeps = <<>>
    /\ log = <<>>
    /\ job_details = NoDoc
    /\ appended = <<>>
    /\ response = NoResponse
    /\ escaped = FALSE
    /\ trace = <<>>
    /\ tmp_left = FALSE
    /\ last500 = <<>>
    /\ ConcIdle

NextConc ==
    \/ \E p \in Procs, r \in ConcRequests : CReceive(p, r)
    \/ \E p \in Procs, out \in TranscribeOutcomes : CTranscribe(p, out)
    \/ \E p \in Procs, resp \in ConcAnswerSet : CExtract(p, resp)
    \/ \E p \in Procs, out \in SheetOutcomes : CPersist(p, out)

SpecConc == InitConc /\ [][NextConc]_<< vars, cvars >>

\* ------------------------------------------------------------------------
\* Helpers of the properties
\* ------------------------------------------------------------------------
\* the provider's latest answer to the request
LastResp == log[Len(log)]

\* a string of spaces only (the empty string included)
AllSpaces(s) == \A i \in 1..Len(s) : s[i] = " "

\* the request is over
Answered == pc = "done"

Count(seq, e) == Cardinality({i \in 1..Len(seq) : seq[i] = e})

\* ------------------------------------------------------------------------
\* C1: in app.py a validated upload whose three stages succeed is answered
\* 200 and every one of the five fields of extracted_data carries a value
\* that is not null, whatever JSON object the provider returned.
\* ------------------------------------------------------------------------
C1_AllFieldsPopulated ==
    (variant = "app" /\ Answered /\ log # <<>> /\ LastResp.body = "text_object"
        /\ appended # <<>>)
    => /\ response.code = 200
       /\ \A k \in FieldSet : response.extracted.obj[k] \notin {Absent, Null}

\* ------------------------------------------------------------------------
\* C2: in app.py, when every attempt is answered 5xx, three requests are
\* sent, the first two followed by sleeps of 1 s and 2 s, and only then
\* does the extraction fail.
\* ------------------------------------------------------------------------
C2_RetryOn5xx ==
    (variant = "app" /\ Answered /\ log # <<>>
        /\ \A i \in 1..Len(log) : log[i].status = 503)
    => /\ Len(log) = MaxAttempts
       /\ Len(sleeps) >= 2
       /\ sleeps[1] = 1
       /\ sleeps[2] = 2
       /\ response.code = 500

\* ------------------------------------------------------------------------
\* C3: in app.py no exception leaves upload_audio, and a request whose
\* extraction ends on a malformed provider response (no
\* candidates/content/parts/text structure, unparseable text, or JSON that
\* is not an object) is answered 500 with the generic error body and appends
\* no row.  Extraction ends on such a response when the payload is not an
\* object, or when it is the third attempt's.
\* ------------------------------------------------------------------------
C3_MalformedHandled ==
    variant = "app" =>
        /\ ~escaped
        /\ (log # <<>> /\ LastResp.body \in MalformedBodies /\ pc # "extract")
           => /\ Answered
              /\ response = Response(500, GenericError, NoDoc)
              /\ job_details = NoDoc
              /\ appended = <<>>
              /\ "append" \notin {trace[i] : i \in 1..Len(trace)}

\* C3 as first stated: any malformed response among the provider's answers
\* makes the request end in a 500 without a row.
C3_AnyMalformedFails ==
    (variant = "app" /\ Answered
        /\ \E i \in 1..Len(log) : log[i].body \in MalformedBodies)
    => /\ ~escaped
       /\ response.code = 500
       /\ appended = <<>>

C3_Witness ==
    /\ variant = "app"
    /\ Answered
    /\ Len(log) = MaxAttempts
    /\ log[1].body = "no_struct"
    /\ log[2].body = "text_unparseable"
    /\ log[3].body = "text_unparseable"
    /\ response.code = 500

\* ------------------------------------------------------------------------
\* C4: in app.py and lambda_app.py a returned record has status "applied"
\* when the provider omitted status or gave a falsy value (null, "", 0) or
\* a string of whitespace only, and has the provider's own string unchanged
\* when that string is not blank; no record is returned for any other value.
\* ------------------------------------------------------------------------
C4_StatusDefault ==
    (variant \in {"app", "lambda"} /\ job_details # NoDoc)
    => LET s == LastResp.obj["status"] IN
       /\ LastResp.body = "text_object"
       /\ job_details.kind = "object"
       /\ IF s \in {Absent, Null, Num0} \/ (s.t = "str" /\ AllSpaces(s.v))
          THEN job_details.obj["status"] = Applied
          ELSE s.t = "str" /\ job_details.obj["status"] = s

\* C4 as first stated: "applied" for an omitted, null, empty or
\* whitespace-only status, the provider's value unchanged otherwise.
C4_OtherwiseUnchanged ==
    (variant \in {"app", "lambda"} /\ job_details # NoDoc)
    => LET s == LastResp.obj["status"] IN
       IF s \in {Absent, Null} \/ (s.t = "str" /\ AllSpaces(s.v))
       THEN job_details.obj["status"] = Applied
       ELSE job_details.obj["status"] = s

C4_Witness ==
    /\ variant = "lambda"
    /\ job_details # NoDoc
    /\ LastResp.obj["status"] = Str(<<" ">>)
    /\ job_details.obj["status"] = Applied

\* ------------------------------------------------------------------------
\* C5: in package/lambda_app.py a request answered 200 has status "applied"
\* both in the appended row and in the response's extracted_data when the
\* provider omitted status or gave a blank string.
\* ------------------------------------------------------------------------
C5_PackageStatusApplied ==
    (variant = "package" /\ response.code = 200
        /\ LET s == LastResp.obj["status"] IN
           s = Absent \/ (s.t = "str" /\ AllSpaces(s.v)))
    => /\ Len(appended) = 1
       /\ appended[1][6] = Applied
       /\ response.extracted.obj["status"] = Applied

\* ------------------------------------------------------------------------
\* C6: in app.py a request that fails validation (no audio_data field,
\* empty filename, an extension outside .webm/.mp3/.wav/.m4a whatever its
\* case, or more than 10485760 bytes) is answered 400 and reaches no stage
\* of the pipeline; a file of exactly 10485760 bytes under an allowed
\* extension is not rejected.
\* ------------------------------------------------------------------------
\* the filenames of Filenames whose extension is not an allowed one
RejectedNames ==
    { <<"a", ".", "m", "p", "3", ".", "t", "x", "t">>,
      <<".", "w", "a", "v">>,
      <<"a", ".", "b", "/", "w", "a", "v">> }

C6_Invalid ==
    \/ ~req.has_field
    \/ req.filename = <<>>
    \/ req.filename \in RejectedNames
    \/ req.size > 10485760

C6_ValidationRejects ==
    (variant = "app" /\ pc # "idle")
    => /\ C6_Invalid
          => /\ Answered
             /\ response.code = 400
             /\ trace = <<>>
             /\ log = <<>>
             /\ appended = <<>>
       /\ ~C6_Invalid => response.code # 400
       /\ (req.has_field /\ req.filename = GoodName /\ req.size = 10485760)
          => /\ ~C6_Invalid
             /\ Answered => trace # <<>>

C6_Witness ==
    /\ variant = "app"
    /\ Answered
    /\ req.has_field
    /\ req.filename = GoodName
    /\ req.size = 10485761
    /\ response.code = 400

\* ------------------------------------------------------------------------
\* C7: in the three variants a validated request one of whose stages
\* (transcription, extraction, persistence) fails is answered 500: it is not
\* answered 200 and no exception leaves the handler.
\* ------------------------------------------------------------------------
\* the request passed validation and one of its stages did not deliver
C7_StageFailed ==
    /\ Answered
    /\ trace # <<>>
    /\ \/ transcript = Null
       \/ job_details = NoDoc
       \/ appended = <<>>

C7_FailureIs500 ==
    /\ ~escaped
    /\ C7_StageFailed => response.code = 500
    /\ response.code = 200
       => (transcript # Null /\ job_details # NoDoc /\ Len(appended) = 1)

C7_Witness ==
    /\ variant = "package"
    /\ C7_StageFailed
    /\ job_details.kind = "list"
    /\ response.code = 500

\* ------------------------------------------------------------------------
\* C8: in the three variants the body of a 500 response is the same for any
\* two failing requests, whichever stage failed and whatever the text of the
\* underlying error.
\* ------------------------------------------------------------------------
C8_GenericBody ==
    (response.code = 500 /\ last500 # <<>>) => response.error = last500

\* ------------------------------------------------------------------------
\* C9: in app.py and lambda_app.py the stages run in the order
\* transcription, extraction, persistence, response: transcription is
\* invoked once and never again, the provider is called only with a
\* transcript in hand, the append is attempted only with a record in hand
\* and is the last stage, and a request whose transcription or extraction
\* failed appends no row.
\* ------------------------------------------------------------------------
C9_StageOrder ==
    variant \in {"app", "lambda"} =>
        /\ Count(trace, "transcribe") <= 1
        /\ trace # <<>> => trace[1] = "transcribe"
        /\ (pc \notin {"idle", "transcribe"} /\ response.code # 400)
           => Count(trace, "transcribe") = 1
        /\ \A i \in 1..Len(trace) :
              /\ trace[i] = "post" => (i > 1 /\ transcript # Null)
              /\ trace[i] = "append"
                 => /\ i = Len(trace)
                    /\ i > 2
                    /\ trace[i - 1] = "post"
                    /\ job_details # NoDoc
        /\ (transcript = Null \/ job_details = NoDoc) => appended = <<>>
        /\ response.code = 200 => trace[Len(trace)] = "append"

C9_Witness ==
    /\ variant = "app"
    /\ Answered
    /\ trace = <<"transcribe", "post", "post", "append">>
    /\ response.code = 200

\* ------------------------------------------------------------------------
\* C10: in app.py and lambda_app.py a request answered 200 has appended
\* exactly one row, of six cells in the order date, company_name, job_role,
\* resume_version, platform, status, and the five field cells equal the
\* same fields of the response's extracted_data.
\* ------------------------------------------------------------------------
C10_RowMatchesResponse ==
    (variant \in {"app", "lambda"} /\ response.code = 200)
    => /\ Len(appended) = 1
       /\ Len(appended[1]) = 6
       /\ appended[1][1] = Today
       /\ \A i \in 1..5 : appended[1][i + 1] = response.extracted.obj[FIELDS[i]]

C10_Witness ==
    /\ variant = "app"
    /\ response.code = 200
    /\ Len(appended) = 1
    /\ appended[1][2] = Null
    /\ appended[1][3] = NA
    /\ appended[1][6] = Str(<<"x">>)

\* ------------------------------------------------------------------------
\* C11: in app.py extract_job_details sends at most 3 requests whatever the
\* provider answers, and ends by returning a record or by raising: it never
\* returns without a record, after the third request no further attempt is
\* made, and a third attempt that did not produce a record raises.
\* ------------------------------------------------------------------------
\* extract_job_details is over
C11_ExtractionOver == pc \in {"persist", "done"} /\ log # <<>>

C11_BoundedExtraction ==
    variant = "app" =>
        /\ Len(log) <= 3
        /\ Count(trace, "post") = Len(log)
        /\ pc = "extract" => (Len(log) < 3 /\ attempt = Len(log) /\ job_details = NoDoc)
        /\ Len(log) = 3 => C11_ExtractionOver
        /\ C11_ExtractionOver
           => \/ job_details.kind = "object"
              \/ /\ job_details = NoDoc
                 /\ Answered
                 /\ response.code = 500
                 /\ appended = <<>>

C11_Witness ==
    /\ variant = "app"
    /\ Answered
    /\ Len(log) = 3
    /\ log[1].status = 0
    /\ log[2].body = "body_not_json"
    /\ log[3].body = "no_struct"
    /\ job_details = NoDoc
    /\ response.code = 500

\* ------------------------------------------------------------------------
\* C12: in app.py an HTTP 4xx answer on any attempt makes
\* extract_job_details raise at once: it is the last request sent and no
\* sleep follows it.
\* ------------------------------------------------------------------------
C12_FailFastOn4xx ==
    variant = "app" =>
        \A i \in 1..Len(log) :
            (400 <= log[i].status /\ log[i].status < 500)
            => /\ i = Len(log)
               /\ Len(sleeps) = i - 1
               /\ Answered
               /\ job_details = NoDoc
               /\ response.code = 500

C12_Witness ==
    /\ variant = "app"
    /\ Len(log) = 2
    /\ log[1].body = "text_unparseable"
    /\ log[2].status = 404
    /\ sleeps = <<1>>
    /\ response.code = 500

\* ------------------------------------------------------------------------
\* C13: in app.py, when attempts 1..k-1 (k <= 3) fail with a network error
\* or timeout, an unexpected response structure or unparseable JSON text and
\* attempt k is answered with a well-formed response (a JSON object whose
\* status, when present, is a string or a falsy value), the function returns
\* the record of attempt k with the defaults applied, and it slept 1 s before
\* attempt 2 and 2 s before attempt 3.
\* ------------------------------------------------------------------------
C13_Retryable(r) == r.status = 0 \/ r.body \in {"no_struct", "text_unparseable"}

C13_WellFormed(r) == r.body = "text_object" /\ r.obj["status"] # Num5

\* the record expected from the provider's object
C13_Record(o) ==
    [k \in FieldSet |->
        IF k = "status"
        THEN IF o[k] \in {Absent, Null, Num0} \/ (o[k].t = "str" /\ AllSpaces(o[k].v))
             THEN Applied ELSE o[k]
        ELSE IF o[k] = Absent THEN NA ELSE o[k]]

C14_SleepOnlyBeforeRetry ==
    variant = "app" =>
        /\ Len(sleeps) <= 2
        /\ Len(sleeps) <= Len(log)
        /\ (sleeps # <<>> /\ Len(sleeps) = Len(log))
           => (pc = "extract" /\ attempt < MaxAttempts)
        /\ C11_ExtractionOver => Len(sleeps) = Len(log) - 1

C14_Witness ==
    /\ variant = "app"
    /\ Answered
    /\ Len(log) = 3
    /\ log[3].status = 503
    /\ sleeps = <<1, 2>>
    /\ response.code = 500

\* ------------------------------------------------------------------------
\* C16: in app.py and lambda_app.py the temporary file is gone once
\* transcribe_audio_in_memory has returned or raised, whatever the outcome
\* of writing the audio bytes and of the transcription call.
\* ------------------------------------------------------------------------
C16_TempFileRemoved ==
    (variant \in {"app", "lambda"} /\ "transcribe" \in {trace[i] : i \in 1..Len(trace)})
    => ~tmp_left

\* ------------------------------------------------------------------------
\* C15: with several uploads in flight in lambda_app.py, in any
\* interleaving, the row a request appended and the extracted_data of its
\* response carry the values extracted from that request's own transcript,
\* every row of the worksheet is the row of one request's successful append,
\* and the worksheet holds as many rows as append calls succeeded.
\* ------------------------------------------------------------------------
\* the rows of the worksheet that carry request p's transcript
C15_RowsOf(p) == {i \in 1..Len(sheet) : sheet[i][2] = TranscriptOf(p)}

C15_NoInterference ==
    /\ \A p \in Procs :
          /\ Len(csaved[p]) <= 1
          /\ Cardinality(C15_RowsOf(p)) = Len(csaved[p])
          /\ \A i \in C15_RowsOf(p) : sheet[i] = csaved[p][1]
          /\ cresp[p].code = 200
             => /\ Len(csaved[p]) = 1
                /\ cresp[p].extracted = cjob[p]
                /\ cresp[p].extracted.obj["company_name"] = TranscriptOf(p)
                /\ \A i \in 1..5 :
                      csaved[p][1][i + 1] = cresp[p].extracted.obj[FIELDS[i]]
          /\ cresp[p].code # 200 => csaved[p] = <<>>
    /\ \A i \in 1..Len(sheet) : \E p \in Procs : i \in C15_RowsOf(p)
    /\ Len(sheet) = Cardinality({p \in Procs : csaved[p] # <<>>})

C15_Witness ==
    /\ Len(sheet) = 2
    /\ sheet[1][2] = TranscriptOf(2)
    /\ sheet[2][2] = TranscriptOf(1)
    /\ cresp[1].code = 200
    /\ cresp[2].code = 200

====
